---- MODULE Spec2Model ----
(***************************************************************************)
(* A model of world_music_events.py: one run of main (credential check,    *)
(* date resolution, the two paginated scopes, merge, country filter, CSV   *)
(* write) and the pure functions it is built from (normalize_row,          *)
(* extract_artists, the merge loop, filter_by_countries).                  *)
(*                                                                         *)
(* Three specifications share the module:                                  *)
(*   Spec      one run of main.  A page of rows is kept as one chunk       *)
(*             [page, n] standing for the n rows that page returned, so    *)
(*             the real page size (200) and ceiling (1000) are used.       *)
(*   SpecRows  the merge and filter steps of main over explicit rows.      *)
(*   SpecNorm  normalize_row / extract_artists over explicit raw events.   *)
(***************************************************************************)
EXTENDS Integers, Sequences, FiniteSets

VARIABLES
    api_key,      \* TRUE iff TICKETMASTER_API_KEY is set and non-empty
    args,         \* the parsed command line: start_date, end_date, no_il
    server_cap,   \* the largest page the remote server sends
    pc,           \* position of the run in main
    iso,          \* <<start_iso, end_iso>> once the dates are resolved
    page,         \* paginate: the local `page`
    rows_all,     \* paginate: the local `rows_all`
    world_rows,   \* main: result of the global scope (Spec: chunks,
                  \* SpecRows: explicit rows)
    il_rows,      \* main: result of the region scope (likewise)
    fetched,      \* every call of fetch_events_page so far, in call order
    out_file,     \* the file at the output path
    abort,        \* which error ended the run ("" while none has)
    allowed,      \* SpecRows: the allow-list handed to filter_by_countries
    blocked,      \* SpecRows: the block-list handed to filter_by_countries
    all_rows,     \* SpecRows: main's all_rows (the merged collection)
    filtered_rows,\* SpecRows: main's filtered_rows
    rpc,          \* SpecRows: position in the merge/filter steps
    ev,           \* SpecNorm: the raw event
    row,          \* SpecNorm: normalize_row(ev), or the raised error
    npc           \* SpecNorm: "raw" before the call, "done" after

runVars  == <<api_key, args, server_cap, pc, iso, page, rows_all, fetched,
              out_file, abort>>
rowVars  == <<allowed, blocked, all_rows, filtered_rows, rpc>>
normVars == <<ev, row, npc>>
vars     == <<runVars, world_rows, il_rows, rowVars, normVars>>

(***************************************************************************)
(* Program constants.                                                      *)
(***************************************************************************)
DEEP_PAGING_LIMIT == 1000
PAGE_SIZE         == 200
\* default_start and default_end of ensure_dates, in days since 2025-10-01
DefaultStart == 0
DefaultEnd   == 273

(***************************************************************************)
(* Bounds of the model.                                                    *)
(***************************************************************************)
\* rows in a page that is not full
ShortPage == 1
\* rows by which a server that ignores the size parameter overshoots it
MaxOver   == 1
\* pages after which the model stops following paginate (never reached by
\* the code, whose last page index is 4)
MaxPage   == 6
\* longest list of rows a scope returns in SpecRows
MaxRows   == 2
\* longest attractions list of a raw event in SpecNorm
MaxAtts   == 3

(***************************************************************************)
(* Command line and environment of a run.                                  *)
(***************************************************************************)
NoArg      == [k |-> "none", d |-> 0]
BadDate    == [k |-> "bad",  d |-> 0]
DateArg(d) == [k |-> "date", d |-> d]

StartArgs == {NoArg, BadDate, DateArg(300)}
EndArgs   == {NoArg, BadDate}

\* strptime(...).date() if the argument is given, else the default; -1 stands
\* for the ValueError strptime raises on an unparseable string
ParseDate(a, default) ==
    IF a.k = "none" THEN default ELSE IF a.k = "bad" THEN -1 ELSE a.d

\* the guard `if end < start: raise`, negated
DatesInOrderNoCheck(start, end) == TRUE
DatesInOrder(start, end) == ~(end < start)

to_iso_range(start, end) == <<[day |-> start, time |-> "T00:00:00Z"],
                              [day |-> end,   time |-> "T23:59:59Z"]>>

(***************************************************************************)
(* fetch_events_page: the responses the remote server can give.  A page    *)
(* holds no row, ShortPage rows, or as many as the server's page cap.      *)
(***************************************************************************)
PageCounts == {0, ShortPage, server_cap}

Response(scope, p, n, has_next) ==
    [scope |-> scope, page |-> p, ok |-> TRUE, n |-> n, has_next |-> has_next]
Failure(scope, p) ==
    [scope |-> scope, page |-> p, ok |-> FALSE, n |-> 0, has_next |-> FALSE]

Chunk(p, n) == [page |-> p, n |-> n]

RECURSIVE Total(_)
\* len(rows) of a list kept as chunks
Total(rows) == IF rows = <<>> THEN 0 ELSE Head(rows).n + Total(Tail(rows))

(***************************************************************************)
(* paginate: the two break conditions of the loop.                         *)
(***************************************************************************)
EmptyBreakNever(n) == FALSE
\* `if not page_rows: break`
EmptyBreak(n) == n = 0

LastBreakOffByOne(has_next, p) ==
    ~has_next \/ (p + 1) * PAGE_SIZE > DEEP_PAGING_LIMIT
LastBreakNoCap(has_next, p) == ~has_next
\* `if not has_next or (page + 1) * 200 >= DEEP_PAGING_LIMIT: break`
LastBreak(has_next, p) ==
    ~has_next \/ (p + 1) * PAGE_SIZE >= DEEP_PAGING_LIMIT

(***************************************************************************)
(* Spec: one run of main.                                                  *)
(***************************************************************************)
Raise(kind) ==
    /\ pc' = "aborted"
    /\ abort' = kind

\* lines 9-11 and 182-183: the run needs the credential
CheckKey ==
    /\ pc = "start"
    /\ IF api_key
       THEN pc' = "args" /\ abort' = abort
       ELSE Raise("credential")
    /\ UNCHANGED <<api_key, args, server_cap, iso, page, rows_all, fetched,
                   out_file, world_rows, il_rows, rowVars, normVars>>

\* lines 185-187: parse_args, ensure_dates, to_iso_range; then paginate of
\* the global scope is entered (rows_all = [], page = 0)
EnsureDates ==
    /\ pc = "args"
    /\ LET start == ParseDate(args.start_date, DefaultStart)
           end   == ParseDate(args.end_date, DefaultEnd)
       IN  IF start = -1 \/ end = -1 \/ ~DatesInOrder(start, end)
           THEN Raise("dates") /\ UNCHANGED iso
           ELSE /\ iso' = to_iso_range(start, end)
                /\ pc' = "world"
                /\ abort' = abort
    /\ page' = 0
    /\ rows_all' = <<>>
    /\ UNCHANGED <<api_key, args, server_cap, fetched, out_file, world_rows,
                   il_rows, rowVars, normVars>>

\* paginate returns `rows` for `scope` and its locals are gone: line 193 binds
\* world_rows and goes on to line 194 (the region scope unless --no-il),
\* line 194 binds il_rows
Return(scope, rows) ==
    /\ page' = 0
    /\ rows_all' = <<>>
    /\ IF scope = "world"
       THEN /\ world_rows' = rows
            /\ IF args.no_il
               THEN il_rows' = <<>> /\ pc' = "merge"
               ELSE il_rows' = il_rows /\ pc' = "il"
       ELSE /\ il_rows' = rows
            /\ pc' = "merge"
            /\ UNCHANGED world_rows

\* one iteration of the loop of paginate (lines 141-148) for the scope the
\* run is in, the call of fetch_events_page included
FetchPage(scope) ==
    /\ pc = scope
    /\ page <= MaxPage
    /\ \/ \* urlopen or json.loads or normalize_row raises
          /\ fetched' = Append(fetched, Failure(scope, page))
          /\ Raise("fetch")
          /\ UNCHANGED <<page, rows_all, world_rows, il_rows>>
       \/ \E n \in PageCounts, has_next \in BOOLEAN :
             /\ fetched' = Append(fetched, Response(scope, page, n, has_next))
             /\ abort' = abort
             /\ IF EmptyBreak(n)
                THEN Return(scope, rows_all)
                ELSE LET rows == Append(rows_all, Chunk(page, n))
                     IN  IF LastBreak(has_next, page)
                         THEN Return(scope, rows)
                         ELSE /\ rows_all' = rows
                              /\ page' = page + 1
                              /\ UNCHANGED <<pc, world_rows, il_rows>>
    /\ UNCHANGED <<api_key, args, server_cap, iso, out_file, rowVars, normVars>>

\* lines 196-203: the merge and the country filter touch no file; what they
\* compute is modelled in SpecRows
MergeAndFilter ==
    /\ pc = "merge"
    /\ pc' = "open"
    /\ UNCHANGED <<api_key, args, server_cap, iso, page, rows_all, fetched,
                   out_file, abort, world_rows, il_rows, rowVars, normVars>>

\* line 221: open(..., "w") creates or truncates the file, or raises OSError
OpenOut ==
    /\ pc = "open"
    /\ \/ out_file' = "truncated" /\ pc' = "write" /\ abort' = abort
       \/ out_file' = out_file /\ Raise("write")
    /\ UNCHANGED <<api_key, args, server_cap, iso, page, rows_all, fetched,
                   world_rows, il_rows, rowVars, normVars>>

\* lines 222-225: header and rows are written and the file is closed, or a
\* write raises and the file stays as far as it got
WriteRows ==
    /\ pc = "write"
    /\ \/ out_file' = "written" /\ pc' = "done" /\ abort' = abort
       \/ out_file' = "partial" /\ Raise("write")
    /\ UNCHANGED <<api_key, args, server_cap, iso, page, rows_all, fetched,
                   world_rows, il_rows, rowVars, normVars>>

Idle == [allowed |-> <<>>, blocked |-> <<>>, all_rows |-> <<>>,
         filtered_rows |-> <<>>, rpc |-> "idle", ev |-> <<>>, row |-> <<>>,
         npc |-> "idle"]

Init ==
    /\ api_key \in BOOLEAN
    /\ args \in [start_date : StartArgs, end_date : EndArgs, no_il : BOOLEAN]
    /\ server_cap \in {PAGE_SIZE, PAGE_SIZE + MaxOver}
    /\ pc = "start"
    /\ iso = <<>>
    /\ page = 0
    /\ rows_all = <<>>
    /\ world_rows = <<>>
    /\ il_rows = <<>>
    /\ fetched = <<>>
    /\ out_file \in {"absent", "stale"}
    /\ abort = ""
    /\ allowed = Idle.allowed /\ blocked = Idle.blocked
    /\ all_rows = Idle.all_rows /\ filtered_rows = Idle.filtered_rows
    /\ rpc = Idle.rpc
    /\ ev = Idle.ev /\ row = Idle.row /\ npc = Idle.npc

Next ==
    \/ CheckKey
    \/ EnsureDates
    \/ FetchPage("world")
    \/ FetchPage("il")
    \/ MergeAndFilter
    \/ OpenOut
    \/ WriteRows

Spec == Init /\ [][Next]_vars

\* the run is sequential and every call returns or raises: a step that can be
\* taken is taken
FairSpec == Spec /\ WF_vars(Next)

(***************************************************************************)
(* What the claims about a run speak of.                                   *)
(***************************************************************************)
Scopes == {"world", "il"}

\* the calls of fetch_events_page made for one scope, in call order
ScopeLog(s) == SelectSeq(fetched, LAMBDA e : e.scope = s)

\* paginate has returned normally for the scope
Returned(s) ==
    IF s = "world"
    THEN pc \in {"il", "merge", "open", "write", "done"}
         \/ (pc = "aborted" /\ abort \in {"write"})
         \/ (pc = "aborted" /\ abort = "fetch" /\ ScopeLog("il") # <<>>)
    ELSE /\ ~args.no_il
         /\ \/ pc \in {"merge", "open", "write", "done"}
            \/ (pc = "aborted" /\ abort = "write")

\* the list paginate returned for the scope
ResultOf(s) == IF s = "world" THEN world_rows ELSE il_rows

\* the rows of the first k logged pages, in fetch order
Accumulated(L, k) == [i \in 1..k |-> Chunk(L[i].page, L[i].n)]

\* every page the scope received honours the requested size
SizeHonoured(s) == \A i \in 1..Len(ScopeLog(s)) : ScopeLog(s)[i].n <= 200

Untouched == out_file \in {"absent", "stale"}
Terminated == pc \in {"done", "aborted"}

(***************************************************************************)
(* Claims about paginate and the run (checked under Spec, C10 under        *)
(* FairSpec).                                                              *)
(***************************************************************************)

\* C1 (as stated): whatever pages the server returns for a scope, any number
\* of rows per page included, the list paginate returns holds at most 1000
\* rows.
C1_AtMostLimitAnyPages ==
    \A s \in Scopes : Returned(s) => Total(ResultOf(s)) <= 1000

\* C1 (amended): when every page the server returned for the scope holds at
\* most the requested 200 rows, the list paginate returns for that scope
\* holds at most 1000 rows.
C1_AtMostLimit ==
    \A s \in Scopes :
        (Returned(s) /\ SizeHonoured(s)) => Total(ResultOf(s)) <= 1000

\* a scope that returned exactly 1000 rows from pages of the requested size
C1_Witness ==
    /\ Returned("il")
    /\ SizeHonoured("il")
    /\ Len(ScopeLog("il")) = 5
    /\ Total(il_rows) = 1000

\* rows accumulated once the first k logged pages are in
Cumulative(L, k) == Total(Accumulated(L, k))

\* the stop condition as C2 states it: (c) is about the cumulative count
StopsAsStated(L, k) ==
    \/ L[k].n = 0
    \/ ~L[k].has_next
    \/ Cumulative(L, k) + 200 > 1000

\* the stop condition of the amended C2: (c) is about the page index
StopsAtPage(e) ==
    \/ e.n = 0
    \/ ~e.has_next
    \/ (e.page + 1) * 200 >= 1000

\* C2 (as stated), for a server that honours the page size: pages are fetched
\* as 0, 1, 2, ... and paginate stops after page k exactly when k is the
\* first page that is empty, or has no next page, or after which one more
\* page would push the cumulative row count past 1000.
C2_StopsAsStated ==
    server_cap = 200 =>
        \A s \in Scopes :
            LET L == ScopeLog(s)
            IN  /\ \A i \in 1..Len(L) : L[i].page = i - 1
                /\ \A i \in 1..(Len(L) - 1) : L[i].ok /\ ~StopsAsStated(L, i)
                /\ Returned(s) =>
                       L # <<>> /\ L[Len(L)].ok /\ StopsAsStated(L, Len(L))
                /\ (L # <<>> /\ L[Len(L)].ok /\ ~StopsAsStated(L, Len(L))) =>
                       pc = s /\ page = Len(L)

\* C2 (amended): pages are fetched as 0, 1, 2, ... without gap or repeat, and
\* paginate stops after page k exactly when k is the first page that (a) is
\* empty, or (b) has no next page, or (c) is page 4, the last page index with
\* (k + 1) * 200 >= 1000, whatever the number of rows accumulated; when none
\* holds after page k the run is about to fetch page k + 1.
C2_PageOrderAndStop ==
    \A s \in Scopes :
        LET L == ScopeLog(s)
        IN  /\ \A i \in 1..Len(L) : L[i].page = i - 1
            /\ \A i \in 1..(Len(L) - 1) : L[i].ok /\ ~StopsAtPage(L[i])
            /\ Returned(s) =>
                   L # <<>> /\ L[Len(L)].ok /\ StopsAtPage(L[Len(L)])
            /\ (L # <<>> /\ L[Len(L)].ok /\ ~StopsAtPage(L[Len(L)])) =>
                   pc = s /\ page = Len(L)
            /\ pc = s => page = Len(L)

\* paginate stopped by the page cap alone: five non-empty pages, each
\* announcing a next page, far fewer than 1000 rows accumulated
C2_Witness ==
    /\ Returned("world")
    /\ Len(ScopeLog("world")) = 5
    /\ \A i \in 1..5 : ScopeLog("world")[i].n = ShortPage
                       /\ ScopeLog("world")[i].has_next

\* C3: a page with zero rows ends paginate at once, also when it announces a
\* next page: it is the last page fetched for the scope and the result is
\* the rows of the earlier pages, in fetch order.
C3_EmptyPageStops ==
    \A s \in Scopes :
        LET L == ScopeLog(s)
        IN  \A i \in 1..Len(L) :
                (L[i].ok /\ L[i].n = 0) =>
                    /\ i = Len(L)
                    /\ Returned(s)
                    /\ ResultOf(s) = Accumulated(L, i - 1)

\* an empty third page that announces a next page
C3_Witness ==
    LET L == ScopeLog("world")
    IN  /\ Len(L) = 3
        /\ L[3].ok /\ L[3].n = 0 /\ L[3].has_next
        /\ Len(world_rows) = 2
        /\ pc \in {"il", "merge"}

\* the dates of the command line parse and are in order
DatesValid ==
    /\ args.start_date.k # "bad"
    /\ args.end_date.k # "bad"
    /\ LET start == IF args.start_date.k = "date" THEN args.start_date.d ELSE 0
           end   == IF args.end_date.k = "date" THEN args.end_date.d ELSE 273
       IN  start <= end

\* every page of the scope was fetched without error, up to a stopping page
ScopeComplete(s) ==
    LET L == ScopeLog(s)
    IN  /\ L # <<>>
        /\ \A i \in 1..Len(L) : L[i].ok
        /\ StopsAtPage(L[Len(L)])

\* C7: the output file is created or overwritten only after the credential
\* check, the date validation and every page fetch of every scope succeeded;
\* a run aborted by one of them leaves the file as it was.
C7_OutputAfterFetches ==
    /\ ~Untouched =>
           /\ api_key
           /\ DatesValid
           /\ ScopeComplete("world")
           /\ args.no_il \/ ScopeComplete("il")
           /\ args.no_il => ScopeLog("il") = <<>>
    /\ (pc = "aborted" /\ abort \in {"credential", "dates", "fetch"}) =>
           Untouched

\* a fetch of the region scope fails after the global scope was fetched: the
\* previous output is still there
C7_Witness ==
    /\ pc = "aborted"
    /\ abort = "fetch"
    /\ Len(ScopeLog("world")) >= 2
    /\ Len(ScopeLog("il")) >= 2
    /\ out_file = "stale"

FetchBound ==
    /\ \A s \in Scopes :
           /\ Len(ScopeLog(s)) <= 5
           /\ \A i \in 1..Len(ScopeLog(s)) : ScopeLog(s)[i].page \in 0..4
    /\ Len(fetched) <= 10
    /\ args.no_il => Len(fetched) <= 5 /\ ScopeLog("il") = <<>>
    /\ \A i, j \in 1..Len(fetched) :
           (fetched[i].scope = "world" /\ fetched[j].scope = "il") => i < j

\* C10: a run in which every fetch returns or fails terminates; it issues at
\* most 5 fetches per scope (pages 0 to 4), at most 10 in all and at most 5
\* with --no-il, every global fetch before any region fetch.
C10_BoundedRun == []FetchBound /\ <>Terminated

\* a finished run that made all ten fetches
C10_Witness ==
    /\ pc = "done"
    /\ Len(fetched) = 10

(***************************************************************************)
(* Values of the Python program.  A text is a tuple of characters, so that *)
(* lower(), strip() and join() are computed; None and texts are tagged to  *)
(* keep them apart.                                                        *)
(***************************************************************************)
None   == [t |-> "null"]
Str(s) == [t |-> "str", s |-> s]

\* `x or ""` for x a text or None
OrEmpty(x) == IF x.t = "str" THEN x.s ELSE <<>>

Uppers == <<"A", "C", "E", "F", "G", "I", "R", "U">>
Lowers == <<"a", "c", "e", "f", "g", "i", "r", "u">>

LowerChar(c) ==
    IF \E i \in 1..Len(Uppers) : Uppers[i] = c
    THEN Lowers[CHOOSE i \in 1..Len(Uppers) : Uppers[i] = c]
    ELSE c

\* str.lower
Lower(s) == [i \in 1..Len(s) |-> LowerChar(s[i])]

RECURSIVE LStrip(_)
LStrip(s) == IF s # <<>> /\ Head(s) = " " THEN LStrip(Tail(s)) ELSE s
RECURSIVE RStrip(_)
RStrip(s) ==
    IF s # <<>> /\ s[Len(s)] = " " THEN RStrip(SubSeq(s, 1, Len(s) - 1)) ELSE s
\* str.strip
Strip(s) == RStrip(LStrip(s))

\* country labels, abbreviated to two letters
Israel       == <<"I", "l">>
UnitedStates == <<"U", "s">>
GreatBritain == <<"G", "b">>
Canada       == <<"C", "a">>
France       == <<"F", "r">>

DEFAULT_ALLOWED == <<Israel, UnitedStates, GreatBritain, Canada>>

(***************************************************************************)
(* main, lines 196-200: the merge into the dict `combined`.  The dict is   *)
(* kept as Python keeps it: a sequence of <<key, value>> in insertion      *)
(* order, an assignment to a key already present replacing the value in    *)
(* place.                                                                  *)
(***************************************************************************)
HasKey(d, k) == \E i \in 1..Len(d) : d[i][1] = k

PutKeepFirst(d, k, v) == IF HasKey(d, k) THEN d ELSE Append(d, <<k, v>>)
PutAlwaysAppend(d, k, v) == Append(d, <<k, v>>)
\* combined[k] = v
Put(d, k, v) ==
    IF HasKey(d, k)
    THEN [i \in 1..Len(d) |-> IF d[i][1] = k THEN <<k, v>> ELSE d[i]]
    ELSE Append(d, <<k, v>>)

RECURSIVE MergeInto(_, _)
\* for r in rows: combined[r["event_id"]] = r
MergeInto(combined, rows) ==
    IF rows = <<>> THEN combined
    ELSE MergeInto(Put(combined, Head(rows).event_id, Head(rows)), Tail(rows))

\* list(combined.values())
Values(d) == [i \in 1..Len(d) |-> d[i][2]]

(***************************************************************************)
(* filter_by_countries.                                                    *)
(***************************************************************************)
\* set(a.lower() for a in list), the entries being texts as parse_list and
\* DEFAULT_ALLOWED give them
LoweredSet(list) == {Lower(list[i]) : i \in 1..Len(list)}

KeepsUnlessAllowed(r, allowed_set, blocked_set) ==
    LET cl == Lower(Strip(OrEmpty(r.country)))
    IN  IF allowed_set # {}
        THEN cl \in allowed_set
        ELSE ~(blocked_set # {} /\ cl \in blocked_set)
\* the body of the loop: neither `continue` is taken
Keeps(r, allowed_set, blocked_set) ==
    LET c  == Strip(OrEmpty(r.country))
        cl == Lower(c)
    IN  /\ ~(allowed_set # {} /\ cl \notin allowed_set)
        /\ ~(blocked_set # {} /\ cl \in blocked_set)

filter_by_countries(rows, allow, block) ==
    LET allowed_set == LoweredSet(allow)
        blocked_set == LoweredSet(block)
    IN  SelectSeq(rows, LAMBDA r : Keeps(r, allowed_set, blocked_set))

(***************************************************************************)
(* SpecRows: lines 196-203 of main over explicit rows.  A row carries the  *)
(* fields the merge and the filter read (event_id, country); the other ten *)
(* are carried along untouched and left out.                               *)
(***************************************************************************)
E1 == <<"E", "1">>
E2 == <<"E", "2">>

SeqsUpTo(S, n) == UNION {[1..k -> S] : k \in 0..n}

\* rows of the merge cases: an identifier may be absent
MergeRows == [event_id : {None, Str(E1), Str(E2)},
              country  : {Str(Canada), Str(France)}]

\* rows of the filter cases: the country is absent, empty, blank, or a label
\* in some case with or without surrounding blanks
FilterRows == [event_id : {Str(E1), Str(E2)},
               country  : {None, Str(<<>>), Str(<<" ">>), Str(Canada),
                           Str(<<"c", "A">>), Str(<<"C", "a", " ">>),
                           Str(France)}]

\* lists parse_list can return: DEFAULT_ALLOWED or [] when the option is not
\* given, else stripped non-empty labels
AllowLists == {DEFAULT_ALLOWED, <<>>, <<Canada>>, <<<<"c", "a">>>>,
               <<Canada, France>>}
BlockLists == {<<>>, <<France>>, <<<<"c", "A">>>>, <<Canada, France>>}

RunIdle ==
    /\ api_key = TRUE
    /\ args = [start_date |-> NoArg, end_date |-> NoArg, no_il |-> FALSE]
    /\ server_cap = PAGE_SIZE
    /\ pc = "idle"
    /\ iso = <<>>
    /\ page = 0
    /\ rows_all = <<>>
    /\ fetched = <<>>
    /\ out_file = "absent"
    /\ abort = ""

InitRows ==
    /\ RunIdle
    /\ \/ /\ world_rows \in SeqsUpTo(MergeRows, MaxRows)
          /\ il_rows \in SeqsUpTo(MergeRows, MaxRows)
          /\ allowed = DEFAULT_ALLOWED
          /\ blocked = <<>>
       \/ /\ world_rows \in SeqsUpTo(FilterRows, MaxRows)
          /\ il_rows = <<>>
          /\ allowed \in AllowLists
          /\ blocked \in BlockLists
    /\ all_rows = <<>>
    /\ filtered_rows = <<>>
    /\ rpc = "fetched"
    /\ ev = Idle.ev /\ row = Idle.row /\ npc = Idle.npc

\* lines 196-200
Merge ==
    /\ rpc = "fetched"
    /\ all_rows' = Values(MergeInto(<<>>, world_rows \o il_rows))
    /\ rpc' = "merged"
    /\ UNCHANGED <<runVars, world_rows, il_rows, allowed, blocked,
                   filtered_rows, normVars>>

\* line 203
Filter ==
    /\ rpc = "merged"
    /\ filtered_rows' = filter_by_countries(all_rows, allowed, blocked)
    /\ rpc' = "filtered"
    /\ UNCHANGED <<runVars, world_rows, il_rows, allowed, blocked, all_rows,
                   normVars>>

NextRows == Merge \/ Filter

SpecRows == InitRows /\ [][NextRows]_vars

(***************************************************************************)
(* Claims about the merge and the filter (checked under SpecRows).         *)
(***************************************************************************)
Fetched == world_rows \o il_rows

IdsOf(rows) == {rows[i].event_id : i \in 1..Len(rows)}

\* the last record of `rows` with the identifier
LastWith(rows, id) ==
    rows[CHOOSE i \in 1..Len(rows) :
             /\ rows[i].event_id = id
             /\ \A j \in (i + 1)..Len(rows) : rows[j].event_id # id]

\* C4: for every identifier the record kept by the merge is the last one
\* with that identifier in 'global list followed by region list'; for an
\* identifier in both lists it is the region-scope record.
C4_LastWriteWins ==
    rpc # "fetched" =>
        /\ \A i \in 1..Len(all_rows) :
               all_rows[i] = LastWith(Fetched, all_rows[i].event_id)
        /\ \A id \in IdsOf(world_rows) \cap IdsOf(il_rows) :
               \E i \in 1..Len(all_rows) :
                   /\ all_rows[i].event_id = id
                   /\ all_rows[i] = LastWith(il_rows, id)

\* an identifier fetched in both scopes with different field values, merged
C4_Witness ==
    /\ rpc = "merged"
    /\ \E i \in 1..Len(world_rows), j \in 1..Len(il_rows) :
           /\ world_rows[i].event_id = il_rows[j].event_id
           /\ world_rows[i] # il_rows[j]
           /\ il_rows[j] \in {all_rows[k] : k \in 1..Len(all_rows)}

NoSharedId(rows) ==
    \A i, j \in 1..Len(rows) : rows[i].event_id = rows[j].event_id => i = j

\* C5: after the merge no two records share an identifier and every fetched
\* identifier occurs exactly once, an absent identifier counting as one key
\* value; the rows that go to the CSV are among them, so none share an
\* identifier either.
C5_UniqueIds ==
    /\ rpc # "fetched" =>
           /\ NoSharedId(all_rows)
           /\ IdsOf(all_rows) = IdsOf(Fetched)
    /\ rpc = "filtered" =>
           /\ NoSharedId(filtered_rows)
           /\ IdsOf(filtered_rows) \subseteq IdsOf(all_rows)

\* two different fetched records without identifier, of which the merge
\* kept the last
C5_Witness ==
    /\ rpc = "filtered"
    /\ \E i, j \in 1..Len(Fetched) :
           /\ i < j
           /\ Fetched[i].event_id = None
           /\ Fetched[j].event_id = None
           /\ Fetched[i] # Fetched[j]
    /\ Cardinality({k \in 1..Len(all_rows) : all_rows[k].event_id = None}) = 1
    /\ Len(all_rows) >= 2

\* the country of a record as a text, absent counting as empty
CountryOf(r) == IF r.country = None THEN <<>> ELSE r.country.s

\* C6 (as stated): a record is kept iff (the allow-list is empty or its
\* country, compared case-insensitively, is in the allow-list) and its
\* country, compared case-insensitively, is not in the block-list.
KeptAsStated(r) ==
    /\ allowed = <<>>
       \/ \E i \in 1..Len(allowed) : Lower(allowed[i]) = Lower(CountryOf(r))
    /\ ~\E i \in 1..Len(blocked) : Lower(blocked[i]) = Lower(CountryOf(r))

C6_FilterAsStated ==
    rpc = "filtered" =>
        filtered_rows = SelectSeq(all_rows, KeptAsStated)

\* C6 (amended): a record is kept iff (the allow-list is empty or its
\* country, stripped of surrounding whitespace and compared
\* case-insensitively, is in the allow-list) and that stripped country is
\* not in the block-list; so a record whose country is absent, empty or
\* blank is dropped whenever the allow-list is non-empty and kept when the
\* allow-list is empty, and a country in both lists is dropped.
KeptAmended(r) ==
    /\ allowed = <<>>
       \/ \E i \in 1..Len(allowed) :
              Lower(allowed[i]) = Lower(Strip(CountryOf(r)))
    /\ ~\E i \in 1..Len(blocked) :
              Lower(blocked[i]) = Lower(Strip(CountryOf(r)))

NoCountry(r) == Strip(CountryOf(r)) = <<>>

C6_Filter ==
    rpc = "filtered" =>
        /\ filtered_rows = SelectSeq(all_rows, KeptAmended)
        /\ allowed # <<>> =>
               \A i \in 1..Len(filtered_rows) : ~NoCountry(filtered_rows[i])
        /\ allowed = <<>> =>
               \A i \in 1..Len(all_rows) :
                   NoCountry(all_rows[i]) =>
                       \E j \in 1..Len(filtered_rows) :
                           filtered_rows[j] = all_rows[i]

\* a filter run that keeps a record by a case-insensitive match and drops a
\* record whose country is in both lists
C6_Witness ==
    /\ rpc = "filtered"
    /\ allowed = <<Canada, France>>
    /\ blocked = <<France>>
    /\ Len(all_rows) = 2
    /\ all_rows[1].country = Str(<<"c", "A">>)
    /\ all_rows[2].country = Str(France)
    /\ filtered_rows = <<all_rows[1]>>

(***************************************************************************)
(* Raw events: JSON values as json.loads returns them.  A dict is a record *)
(* of its possible keys, a key that is not there holding Absent.           *)
(***************************************************************************)
Absent  == [t |-> "absent"]
Obj(f)  == [t |-> "obj", f |-> f]
List(l) == [t |-> "list", l |-> l]
\* an exception raised by the expression
Error   == [t |-> "raise"]

EmptyObj == Obj(<<>>)

\* bool(x)
Truthy(x) ==
    CASE x.t = "null" -> FALSE
      [] x.t = "str"  -> x.s # <<>>
      [] x.t = "list" -> x.l # <<>>
      [] x.t = "obj"  -> \E k \in DOMAIN x.f : x.f[k] # Absent
      [] OTHER        -> FALSE

\* x.get(k): None when the key is not there, AttributeError when x is no dict
Get(x, k) ==
    IF x.t = "obj"
    THEN IF k \in DOMAIN x.f /\ x.f[k] # Absent THEN x.f[k] ELSE None
    ELSE Error

\* x or d
Or(x, d) == IF x = Error THEN Error ELSE IF Truthy(x) THEN x ELSE d

\* xs[0] if xs else {}
FirstOrEmpty(xs) ==
    IF xs = Error THEN Error
    ELSE IF Truthy(xs) THEN xs.l[1] ELSE EmptyObj

(***************************************************************************)
(* extract_artists.                                                        *)
(***************************************************************************)
RECURSIVE NamesOf(_)
\* [a.get("name") for a in atts if isinstance(a, dict) and a.get("name")]
NamesOf(atts) ==
    IF atts = <<>> THEN <<>>
    ELSE LET a == Head(atts)
         IN  IF a.t = "obj" /\ Truthy(Get(a, "name"))
             THEN <<Get(a, "name")>> \o NamesOf(Tail(atts))
             ELSE NamesOf(Tail(atts))

RECURSIVE DedupKeepLast(_, _, _)
DedupKeepLast(names, seen, out) ==
    IF names = <<>> THEN out
    ELSE LET n == Head(names)
         IN  DedupKeepLast(Tail(names), seen \cup {n},
                           Append(SelectSeq(out, LAMBDA m : m # n), n))
RECURSIVE Dedup(_, _, _)
\* for n in names: if n not in seen: seen.add(n); out.append(n)
Dedup(names, seen, out) ==
    IF names = <<>> THEN out
    ELSE LET n == Head(names)
         IN  IF n \notin seen
             THEN Dedup(Tail(names), seen \cup {n}, Append(out, n))
             ELSE Dedup(Tail(names), seen, out)

extract_artists(e) ==
    LET atts == Or(Get(Or(Get(e, "_embedded"), EmptyObj), "attractions"),
                   List(<<>>))
    IN  IF atts = Error \/ atts.t # "list" THEN Error
        ELSE List(Dedup(NamesOf(atts.l), {}, <<>>))

(***************************************************************************)
(* normalize_row.                                                          *)
(***************************************************************************)
RECURSIVE Join(_, _)
\* sep.join(texts)
Join(sep, texts) ==
    IF texts = <<>> THEN <<>>
    ELSE IF Len(texts) = 1 THEN Head(texts).s
    ELSE Head(texts).s \o sep \o Join(sep, Tail(texts))

Headers == {"event_id", "event_name", "local_date", "local_time", "city",
            "country", "venue_name", "genre_name", "subgenre_name",
            "artist_primary", "artists", "url"}

normalize_row(e) ==
    LET emb      == Or(Get(e, "_embedded"), EmptyObj)
        venues   == Or(Get(emb, "venues"), List(<<EmptyObj>>))
        v        == FirstOrEmpty(venues)
        cls_list == Or(Get(e, "classifications"), List(<<EmptyObj>>))
        cls      == FirstOrEmpty(cls_list)
        genre_name    == Get(Or(Get(cls, "genre"), EmptyObj), "name")
        subgenre_name == Get(Or(Get(cls, "subGenre"), EmptyObj), "name")
        start    == Or(Get(Or(Get(e, "dates"), EmptyObj), "start"), EmptyObj)
        artists  == extract_artists(e)
        result   ==
            [event_id       |-> Get(e, "id"),
             event_name     |-> Get(e, "name"),
             local_date     |-> Get(start, "localDate"),
             local_time     |-> Get(start, "localTime"),
             city           |-> Get(Or(Get(v, "city"), EmptyObj), "name"),
             country        |-> Get(Or(Get(v, "country"), EmptyObj), "name"),
             venue_name     |-> Get(v, "name"),
             genre_name     |-> genre_name,
             subgenre_name  |-> subgenre_name,
             artist_primary |-> IF artists = Error THEN Error
                                ELSE IF Truthy(artists) THEN artists.l[1]
                                ELSE None,
             artists        |-> IF artists = Error THEN Error
                                ELSE IF Truthy(artists)
                                THEN Str(Join(<<";", " ">>, artists.l))
                                ELSE None,
             url            |-> Get(e, "url")]
    IN  \* the first expression that raises ends the call
        IF \E h \in Headers : result[h] = Error THEN Error ELSE result

(***************************************************************************)
(* SpecNorm: normalize_row applied to one raw event.                       *)
(***************************************************************************)
\* a nested {"name": ...} block: not there, null, without name, with name
NameBlock(s) == {Absent, None, Obj([name |-> Absent]), Obj([name |-> Str(s)])}

\* a list field: not there, null, empty, a null first entry, or one entry
ListField(entries) ==
    {Absent, None, List(<<>>), List(<<None>>)}
        \cup {List(<<x>>) : x \in entries}

Venues ==
    {Obj(f) : f \in [name    : {Absent, Str(<<"H">>)},
                     city    : NameBlock(<<"T">>),
                     country : {Absent, None, Obj([name |-> Str(Israel)])}]}

Classifications ==
    {Obj(f) : f \in [genre    : NameBlock(<<"R">>),
                     subGenre : {Absent, Obj([name |-> Str(<<"P">>)])}]}

Starts ==
    {Obj(f) : f \in [localDate : {Absent, Str(<<"1">>)},
                     localTime : {Absent, Str(<<"2">>)}]}

Embeddeds ==
    {Obj(f) : f \in [attractions : ListField({Obj([name |-> Str(<<"A">>)])}),
                     venues      : ListField(Venues)]}

\* events whose optional fields are there, null or missing at every level
SparseEvents ==
    {Obj(f) : f \in [id              : {Absent, Str(E1)},
                     name            : {Absent, Str(<<"S">>)},
                     url             : {Absent},
                     _embedded       : {Absent, None} \cup Embeddeds,
                     classifications : ListField(Classifications),
                     dates           : {Absent, None}
                         \cup {Obj([start |-> x]) :
                                   x \in {Absent, None} \cup Starts}]}

\* entries of an attractions list
Attractions ==
    {None, Obj([name |-> Absent]), Obj([name |-> None]),
     Obj([name |-> Str(<<>>)]), Obj([name |-> Str(<<"A">>)]),
     Obj([name |-> Str(<<"B">>)]), Obj([name |-> Str(<<"C">>)])}

EventWith(atts) ==
    Obj([id              |-> Str(E1),
         name            |-> Absent,
         url             |-> Str(<<"u">>),
         _embedded       |-> Obj([attractions |-> List(atts),
                                  venues |-> Absent]),
         classifications |-> Absent,
         dates           |-> Absent])

\* events with every attractions list of up to MaxAtts entries
ArtistEvents == {EventWith(atts) : atts \in SeqsUpTo(Attractions, MaxAtts)}

InitNorm ==
    /\ RunIdle
    /\ world_rows = <<>> /\ il_rows = <<>>
    /\ allowed = Idle.allowed /\ blocked = Idle.blocked
    /\ all_rows = Idle.all_rows /\ filtered_rows = Idle.filtered_rows
    /\ rpc = Idle.rpc
    /\ ev \in SparseEvents \cup ArtistEvents
    /\ row = None
    /\ npc = "raw"

\* line 109: rows = [normalize_row(e) for e in events], for one event
Normalize ==
    /\ npc = "raw"
    /\ row' = normalize_row(ev)
    /\ npc' = "done"
    /\ UNCHANGED <<runVars, world_rows, il_rows, rowVars, ev>>

NextNorm == Normalize

SpecNorm == InitNorm /\ [][NextNorm]_vars

(***************************************************************************)
(* Claims about normalize_row and extract_artists (checked under           *)
(* SpecNorm).                                                              *)
(***************************************************************************)
\* no optional field of the event is there
AllOptionalMissing(e) ==
    \A k \in DOMAIN e.f : k # "id" => e.f[k] \in {Absent, None}

\* C8: normalize_row never raises for an event whose optional fields are
\* absent or null at any nesting level, the first entry of the venues and of
\* the classifications list included; every such field yields an empty value,
\* and an event with every optional field missing yields a record with only
\* the identifier populated.
C8_NeverRaises ==
    npc = "done" =>
        /\ row # Error
        /\ AllOptionalMissing(ev) =>
               \A h \in Headers \ {"event_id"} : row[h] = None

\* the attractions list of the event, [] when there is none
AttractionList(e) ==
    IF e.f._embedded.t = "obj" /\ e.f._embedded.f.attractions.t = "list"
    THEN e.f._embedded.f.attractions.l
    ELSE <<>>

\* the names that are there and non-empty, in the order of the attractions
PresentNames(e) ==
    LET named == SelectSeq(AttractionList(e),
                           LAMBDA a : /\ a.t = "obj"
                                      /\ a.f.name.t = "str"
                                      /\ a.f.name.s # <<>>)
    IN  [i \in 1..Len(named) |-> named[i].f.name]

NoRepeat(names) == \A i, j \in 1..Len(names) : names[i] = names[j] => i = j

FirstAt(names, n) == CHOOSE i \in 1..Len(names) :
    names[i] = n /\ \A j \in 1..(i - 1) : names[j] # n

Range(names) == {names[i] : i \in 1..Len(names)}

\* C9: extract_artists returns the non-empty attraction names without
\* repeats, exactly the names of the input, ordered by first occurrence; a
\* list of names without repeats comes back unchanged, and so does the
\* result when it is extracted again; the primary artist of the record is
\* the first name, or empty when there is none.
C9_ArtistsDeduplicated ==
    npc = "done" =>
        LET names == PresentNames(ev)
            out   == extract_artists(ev).l
            again == EventWith([i \in 1..Len(out) |-> Obj([name |-> out[i]])])
        IN  /\ NoRepeat(out)
            /\ Range(out) = Range(names)
            /\ \A i, j \in 1..Len(out) :
                   i < j => FirstAt(names, out[i]) < FirstAt(names, out[j])
            /\ NoRepeat(names) => out = names
            /\ extract_artists(again).l = out
            /\ row # Error =>
                   row.artist_primary = IF out = <<>> THEN None ELSE out[1]

\* a name repeated after another one: A, B, A gives A, B with A primary
C9_Witness ==
    /\ npc = "done"
    /\ PresentNames(ev) = <<Str(<<"A">>), Str(<<"B">>), Str(<<"A">>)>>
    /\ Len(AttractionList(ev)) = 3
    /\ row.artist_primary = Str(<<"A">>)
    /\ row.artists = Str(<<"A", ";", " ", "B">>)

====
